---- MODULE Spec2Model ----
(***************************************************************************)
(* State-machine model of the KSM -> USC score importer                    *)
(* (src/src/importer.rs, src/src/importer_funcs.rs).                       *)
(*                                                                         *)
(* Text is modelled at character level: a string is a sequence of          *)
(* one-character strings, so that starts_with, split and the numeric       *)
(* parsers are computed the way the code computes them.                    *)
(***************************************************************************)
EXTENDS Integers, Sequences, FiniteSets, TLC

(***************************************************************************)
(* Bounds of the model.                                                    *)
(***************************************************************************)
\* largest number of entries in the score tree of a run
MaxFiles == 2
\* number of direct hash_file calls and file-system edits in the hasher harness
MaxCalls == 3
\* largest number of components of a path given to the chart path resolver
\* on its own
MaxDepth == 6

\* the runs of the importer a host starts, one after the other
MaxRuns == 2

(***************************************************************************)
(* Characters and strings.                                                 *)
(***************************************************************************)
Digits == <<"0", "1", "2", "3", "4", "5", "6", "7", "8", "9">>

IsDigit(c) == \E i \in 1..10 : Digits[i] = c

DigitVal(c) == (CHOOSE i \in 1..10 : Digits[i] = c) - 1

\* str::starts_with
StartsWith(s, p) ==
    /\ Len(s) >= Len(p)
    /\ SubSeq(s, 1, Len(p)) = p

\* index of the first occurrence of character sep in s, 0 when there is none
RECURSIVE FindChar(_, _, _)
FindChar(s, sep, i) ==
    IF i > Len(s) THEN 0
    ELSE IF s[i] = sep THEN i
    ELSE FindChar(s, sep, i + 1)

\* str::split(sep).collect(): the segments between the separators; a string
\* without separator (the empty string too) is one segment
RECURSIVE Split(_, _)
Split(s, sep) ==
    LET k == FindChar(s, sep, 1)
    IN  IF k = 0 THEN <<s>>
        ELSE <<SubSeq(s, 1, k - 1)>> \o Split(SubSeq(s, k + 1, Len(s)), sep)

\* leading zeros removed
RECURSIVE StripZeros(_)
StripZeros(s) ==
    IF Len(s) > 0 /\ s[1] = "0" THEN StripZeros(Tail(s)) ELSE s

\* lexicographic s > t for digit strings of equal length
RECURSIVE DigitsGreater(_, _)
DigitsGreater(s, t) ==
    IF Len(s) = 0 THEN FALSE
    ELSE IF s[1] # t[1] THEN DigitVal(s[1]) > DigitVal(t[1])
    ELSE DigitsGreater(Tail(s), Tail(t))

\* value of a digit string (Horner)
RECURSIVE DigitsValue(_, _)
DigitsValue(s, acc) ==
    IF Len(s) = 0 THEN acc
    ELSE DigitsValue(Tail(s), 10 * acc + DigitVal(s[1]))

AllDigits(s) == \A i \in 1..Len(s) : IsDigit(s[i])

\* u32::MAX as a digit string (4294967295)
U32MaxDigits == <<"4", "2", "9", "4", "9", "6", "7", "2", "9", "5">>

\* Result values, and the third outcome the build can produce: a panic
Ok(v) == [kind |-> "Ok", val |-> v]
Err(e) == [kind |-> "Err", err |-> e]
Panic(m) == [kind |-> "Panic", msg |-> m]

\* <u32 as FromStr>::from_str: an optional '+', then one or more decimal
\* digits, the value at most u32::MAX
ParseU32(s) ==
    IF Len(s) = 0 THEN Err("ParseIntError(Empty)")
    ELSE LET body == IF s[1] = "+" THEN Tail(s) ELSE s
             sig == StripZeros(body)
         IN  IF Len(body) = 0 \/ ~AllDigits(body)
                 THEN Err("ParseIntError(InvalidDigit)")
             ELSE IF \/ Len(sig) > Len(U32MaxDigits)
                     \/ /\ Len(sig) = Len(U32MaxDigits)
                        /\ DigitsGreater(sig, U32MaxDigits)
                 THEN Err("ParseIntError(PosOverflow)")
             ELSE Ok(DigitsValue(sig, 0))

RECURSIVE Gcd(_, _)
Gcd(a, b) == IF b = 0 THEN a ELSE Gcd(b, a % b)

RECURSIVE Pow10(_)
Pow10(k) == IF k = 0 THEN 1 ELSE 10 * Pow10(k - 1)

\* the rational sign * n / d in lowest terms
Rat(neg, n, d) ==
    LET g == Gcd(n, d)
    IN  [neg |-> neg /\ n # 0, n |-> n \div g, d |-> d \div g]

\* <f64 as FromStr>::from_str on plain decimal notation: an optional sign,
\* digits with at most one '.', at least one digit.  The value is kept as
\* an exact rational.
ParseF64(s) ==
    LET signed == Len(s) > 0 /\ s[1] \in {"+", "-"}
        body == IF signed THEN Tail(s) ELSE s
        neg == signed /\ s[1] = "-"
        parts == Split(body, ".")
        int == parts[1]
        frac == IF Len(parts) = 2 THEN parts[2] ELSE <<>>
    IN  IF \/ Len(parts) > 2
           \/ ~AllDigits(int) \/ ~AllDigits(frac)
           \/ Len(int) + Len(frac) = 0
            THEN Err("ParseFloatError(Invalid)")
        ELSE Ok(Rat(neg, DigitsValue(StripZeros(int \o frac), 0), Pow10(Len(frac))))

\* f64 division by a positive integer
RatDiv(q, k) == Rat(q.neg, q.n, q.d * k)


(***************************************************************************)
(* Score Line Parser: KsmScore::from_str.                                  *)
(***************************************************************************)
HardPrefix == <<"h", "a", "r", "d", ",", "n", "o", "r", "m", "a", "l", ",", "n", "o", "r", "m", "a", "l", ",", "o", "n", ",", "o", "n", ",", "o", "n">>
NormalPrefix == <<"n", "o", "r", "m", "a", "l", ",", "n", "o", "r", "m", "a", "l", ",", "n", "o", "r", "m", "a", "l", ",", "o", "n", ",", "o", "n", ",", "o", "n">>

\* from_str without the check of the settings prefix
from_str_any_prefix(score_line) ==
    LET parts == Split(score_line, "=")
    IN  IF Len(parts) < 2
            THEN Panic("unwrap on None")
        ELSE LET settings == Split(parts[1], ",")
                 stats == Split(parts[2], ",")
                 hard == settings[1] = <<"h", "a", "r", "d">>
                 score == ParseU32(stats[1])
             IN  IF score.kind = "Err" THEN score
                 ELSE IF Len(stats) < 4
                     THEN Panic("index out of bounds")
                 ELSE LET gauge == ParseF64(stats[4])
                          badge == ParseU32(stats[2])
                      IN  IF gauge.kind = "Err" THEN gauge
                          ELSE IF badge.kind = "Err" THEN badge
                          ELSE Ok([score |-> score.val,
                                   crit |-> 0,
                                   near |-> 0,
                                   miss |-> IF badge.val > 1 THEN 0 ELSE 1,
                                   gauge |-> RatDiv(gauge.val, 100),
                                   badge |-> badge.val,
                                   hard |-> hard])

\* from_str with miss taken from badge >= 1
from_str_miss_from_one(score_line) ==
    IF ~(StartsWith(score_line, HardPrefix) \/ StartsWith(score_line, NormalPrefix))
        THEN Err("Unsupported score entry")
    ELSE LET parts == Split(score_line, "=")
         IN  IF Len(parts) < 2
                 THEN Panic("unwrap on None")
             ELSE LET settings == Split(parts[1], ",")
                      stats == Split(parts[2], ",")
                      hard == settings[1] = <<"h", "a", "r", "d">>
                      score == ParseU32(stats[1])
                  IN  IF score.kind = "Err" THEN score
                      ELSE IF Len(stats) < 4
                          THEN Panic("index out of bounds")
                      ELSE LET gauge == ParseF64(stats[4])
                               badge == ParseU32(stats[2])
                           IN  IF gauge.kind = "Err" THEN gauge
                               ELSE IF badge.kind = "Err" THEN badge
                               ELSE Ok([score |-> score.val,
                                        crit |-> 0,
                                        near |-> 0,
                                        miss |-> IF badge.val >= 1 THEN 0 ELSE 1,
                                        gauge |-> RatDiv(gauge.val, 100),
                                        badge |-> badge.val,
                                        hard |-> hard])

from_str(score_line) ==
    IF ~(StartsWith(score_line, HardPrefix) \/ StartsWith(score_line, NormalPrefix))
        THEN Err("Unsupported score entry")
    ELSE LET parts == Split(score_line, "=")
         IN  IF Len(parts) < 2
                 THEN Panic("unwrap on None")
             ELSE LET settings == Split(parts[1], ",")
                      stats == Split(parts[2], ",")
                      hard == settings[1] = <<"h", "a", "r", "d">>
                      score == ParseU32(stats[1])
                  IN  IF score.kind = "Err" THEN score
                      ELSE IF Len(stats) < 4
                          THEN Panic("index out of bounds")
                      ELSE LET gauge == ParseF64(stats[4])
                               badge == ParseU32(stats[2])
                           IN  IF gauge.kind = "Err" THEN gauge
                               ELSE IF badge.kind = "Err" THEN badge
                               ELSE Ok([score |-> score.val,
                                        crit |-> 0,
                                        near |-> 0,
                                        miss |-> IF badge.val > 1 THEN 0 ELSE 1,
                                        gauge |-> RatDiv(gauge.val, 100),
                                        badge |-> badge.val,
                                        hard |-> hard])

(***************************************************************************)
(* The lines the score files of the model are made of.                     *)
(***************************************************************************)
\* the line of Scenario A
LineA ==
    <<"h", "a", "r", "d", ",", "n", "o", "r", "m", "a", "l", ",", "n", "o", "r", "m", "a", "l", ",", "o", "n", ",", "o", "n", ",", "o", "n", "=", "1", "0", "0", "0", "0", "0", "0", ",", "2", ",", "0", ",", "9", "8", ".", "5", "0">>

\* normal gauge, badge 1, a fifth stats field
LineNormal ==
    <<"n", "o", "r", "m", "a", "l", ",", "n", "o", "r", "m", "a", "l", ",", "n", "o", "r", "m", "a", "l", ",", "o", "n", ",", "o", "n", ",", "o", "n", "=", "9", "1", "2", "3", "4", "5", "6", ",", "1", ",", "3", ",", "7", "0", ".", "5", ",", "e", "x", "t", "r", "a">>

\* an unsupported settings profile
LineEasy ==
    <<"e", "a", "s", "y", ",", "n", "o", "r", "m", "a", "l", ",", "n", "o", "r", "m", "a", "l", ",", "o", "n", ",", "o", "n", ",", "o", "n", "=", "1", "0", "0", "0", "0", "0", "0", ",", "2", ",", "0", ",", "9", "8", ".", "5", "0">>

\* supported prefix, no '=' separator
LineNoEq ==
    <<"h", "a", "r", "d", ",", "n", "o", "r", "m", "a", "l", ",", "n", "o", "r", "m", "a", "l", ",", "o", "n", ",", "o", "n", ",", "o", "n">>

\* supported prefix, two stats fields
LineShort ==
    <<"h", "a", "r", "d", ",", "n", "o", "r", "m", "a", "l", ",", "n", "o", "r", "m", "a", "l", ",", "o", "n", ",", "o", "n", ",", "o", "n", "=", "1", "0", "0", "0", "0", "0", "0", ",", "2">>

\* one stats field, not a number
LineShortBad ==
    <<"h", "a", "r", "d", ",", "n", "o", "r", "m", "a", "l", ",", "n", "o", "r", "m", "a", "l", ",", "o", "n", ",", "o", "n", ",", "o", "n", "=", "a", "b", "c">>

\* score above u32::MAX
LineBadScore ==
    <<"h", "a", "r", "d", ",", "n", "o", "r", "m", "a", "l", ",", "n", "o", "r", "m", "a", "l", ",", "o", "n", ",", "o", "n", ",", "o", "n", "=", "4", "2", "9", "4", "9", "6", "7", "2", "9", "6", ",", "2", ",", "0", ",", "9", "8", ".", "5", "0">>

\* badge not a number
LineBadBadge ==
    <<"n", "o", "r", "m", "a", "l", ",", "n", "o", "r", "m", "a", "l", ",", "n", "o", "r", "m", "a", "l", ",", "o", "n", ",", "o", "n", ",", "o", "n", "=", "1", "0", "0", "0", "0", "0", "0", ",", "x", ",", "0", ",", "9", "8", ".", "5", "0">>

\* gauge not a number
LineBadGauge ==
    <<"n", "o", "r", "m", "a", "l", ",", "n", "o", "r", "m", "a", "l", ",", "n", "o", "r", "m", "a", "l", ",", "o", "n", ",", "o", "n", ",", "o", "n", "=", "1", "0", "0", "0", "0", "0", "0", ",", "2", ",", "0", ",", "9", ".", "8", ".", "5">>

AllLines == {LineA, LineNormal, LineEasy, LineNoEq, LineShort, LineShortBad, LineBadScore, LineBadBadge, LineBadGauge}

\* from_str on every line of the model, evaluated once
Parsed == [l \in AllLines |-> from_str(l)]

(***************************************************************************)
(* Paths: a path is the sequence of its components (Path::components), a   *)
(* component a file name split into stem and extension ("" for none).      *)
(***************************************************************************)
Comp(stem, ext) == [stem |-> stem, ext |-> ext]

RootDir == Comp("/", "")

\* Path::with_extension: the extension of the last component replaced
with_extension(path, ext) ==
    [path EXCEPT ![Len(path)] = Comp(path[Len(path)].stem, ext)]

\* str::to_ascii_lowercase on the extensions of the model
to_ascii_lowercase(ext) ==
    CASE ext = "KSC" -> "ksc"
      [] ext = "Ksc" -> "ksc"
      [] OTHER -> ext

RECURSIVE chart_components_off_by_one(_, _, _)
chart_components_off_by_one(res, depth, i) ==
    IF i >= Len(res) THEN <<>>
    ELSE IF i = depth - 3 THEN chart_components_off_by_one(res, depth, i + 1)
    ELSE <<IF i = depth - 4 THEN Comp("songs", "") ELSE res[i + 1]>>
             \o chart_components_off_by_one(res, depth, i + 1)

\* the components of a path at the 0-based indices from i on that the
\* filter of get_score_chart_path keeps, the one at index depth - 5 renamed.
\* depth - 4 and depth - 5 are usize subtractions: below zero they wrap to a
\* value above every index, which like the negative number here equals none.
RECURSIVE chart_components(_, _, _)
chart_components(res, depth, i) ==
    IF i >= Len(res) THEN <<>>
    ELSE IF i = depth - 4 THEN chart_components(res, depth, i + 1)
    ELSE <<IF i = depth - 5 THEN Comp("songs", "") ELSE res[i + 1]>>
             \o chart_components(res, depth, i + 1)

\* Chart Path Resolver.  `existing` is the set of paths that exist on disk;
\* overflow_checks tells whether the build panics on arithmetic overflow
\* (the debug profile) or wraps (the release profile).
get_score_chart_path(score_path, existing, overflow_checks) ==
    LET res0 == with_extension(score_path, "ksh")
        depth == Len(res0)
        res == chart_components(res0, depth, 0)
    IN  IF overflow_checks /\ depth < 5
            THEN Panic("attempt to subtract with overflow")
        ELSE IF res \notin existing
            THEN Err([text |-> "File does not exist", path |-> res])
        ELSE Ok(res)

(***************************************************************************)
(* `as f32`: a rational rounded to the nearest single-precision value      *)
(* (24 significant bits, ties to even), kept as m * 2^(-e).  Values of the *)
(* model stay below 2^23, so the integer part never needs a right shift.   *)
(***************************************************************************)
F32Mantissa == 24

RECURSIVE Pow2(_)
Pow2(k) == IF k = 0 THEN 1 ELSE 2 * Pow2(k - 1)

\* the least and the first too large mantissa of a normal number
F32Least == Pow2(F32Mantissa - 1)
F32Over == Pow2(F32Mantissa)

\* binary long division until m has F32Mantissa bits; r / d is what is left
RECURSIVE F32Norm(_, _, _, _)
F32Norm(m, r, d, e) ==
    IF m >= F32Least THEN [m |-> m, r |-> r, e |-> e]
    ELSE IF 2 * r >= d THEN F32Norm(2 * m + 1, 2 * r - d, d, e + 1)
    ELSE F32Norm(2 * m, 2 * r, d, e + 1)

as_f32(q) ==
    IF q.n = 0 THEN [neg |-> FALSE, m |-> 0, e |-> 0]
    ELSE LET st == F32Norm(q.n \div q.d, q.n % q.d, q.d, 0)
             up == \/ 2 * st.r > q.d
                   \/ 2 * st.r = q.d /\ st.m % 2 = 1
             m == IF up THEN st.m + 1 ELSE st.m
         IN  IF m = F32Over
                 THEN [neg |-> q.neg, m |-> F32Least, e |-> st.e - 1]
             ELSE [neg |-> q.neg, m |-> m, e |-> st.e]

(***************************************************************************)
(* Content Hasher with its process-wide cache.                             *)
(***************************************************************************)
\* the SHA-1 digest of a file's bytes, as hexadecimal text (uninterpreted:
\* different bytes, different digest)
Sha1(bytes) == <<"sha1", bytes>>

\* what the file system holds at a chart path: "absent", "unreadable" (it
\* exists and cannot be opened or read) or the file's bytes
ChartBytes == {"bytes1", "bytes2"}
ChartStatus == {"absent", "unreadable"} \cup ChartBytes

\* hash_file(path) with the cache `cache` (a function from the cached keys
\* to digests) over the file system `fs`: the result, the cache afterwards
\* and the files opened
hash_file_uncached(path, cache, fs) ==
    IF fs[path] \notin ChartBytes
        THEN [res |-> Err([text |-> "io error", path |-> path]),
              cache |-> cache, opened |-> <<path>>]
    ELSE [res |-> Ok(Sha1(fs[path])), cache |-> (path :> Sha1(fs[path])) @@ cache,
          opened |-> <<path>>]

hash_file(path, cache, fs) ==
    IF path \in DOMAIN cache
        THEN [res |-> Ok(cache[path]), cache |-> cache, opened |-> <<>>]
    ELSE IF fs[path] \notin ChartBytes
        THEN [res |-> Err([text |-> "io error", path |-> path]),
              cache |-> cache, opened |-> <<path>>]
    ELSE LET res == Sha1(fs[path])
         IN  [res |-> Ok(res), cache |-> (path :> res) @@ cache, opened |-> <<path>>]

(***************************************************************************)
(* Schema-Versioned Inserter.                                              *)
(***************************************************************************)
ScoreRowGaugeTypeSwapped(score, lwt, hash) ==
    [score |-> score.score, crit |-> score.crit, near |-> score.near,
     miss |-> score.miss, gauge |-> as_f32(score.gauge), auto_flags |-> 0,
     replay |-> "", timestamp |-> lwt, chart_hash |-> hash, user_name |-> "",
     user_id |-> 0, local_score |-> TRUE, window_perfect |-> 46,
     window_good |-> 92, window_hold |-> 138, window_miss |-> 250,
     window_slam |-> 84, gauge_type |-> IF score.hard THEN 0 ELSE 1,
     gauge_opt |-> 0, mirror |-> FALSE, random |-> FALSE]

\* the row version_19 inserts into Scores
ScoreRow(score, lwt, hash) ==
    [score |-> score.score, crit |-> score.crit, near |-> score.near,
     miss |-> score.miss, gauge |-> as_f32(score.gauge), auto_flags |-> 0,
     replay |-> "", timestamp |-> lwt, chart_hash |-> hash, user_name |-> "",
     user_id |-> 0, local_score |-> TRUE, window_perfect |-> 46,
     window_good |-> 92, window_hold |-> 138, window_miss |-> 250,
     window_slam |-> 84, gauge_type |-> IF score.hard THEN 1 ELSE 0,
     gauge_opt |-> 0, mirror |-> FALSE, random |-> FALSE]

\* version_19 leaving a row behind when the INSERT is reported as failed
version_19_row_despite_failure(score, score_path, cache, env) ==
    LET existing == {p \in DOMAIN env.charts : env.charts[p] # "absent"}
        chart_path == get_score_chart_path(score_path, existing, env.overflow_checks)
        none == [res |-> chart_path, rows |-> <<>>, cache |-> cache, calls |-> <<>>]
    IN  IF chart_path.kind # "Ok" THEN none
        ELSE IF ~env.mtime.ok
            THEN [none EXCEPT !.res = Err([text |-> "io error", path |-> score_path])]
        ELSE IF env.mtime.secs < 0
            THEN [none EXCEPT !.res = Panic("unwrap on SystemTimeError")]
        ELSE LET hash == hash_file(chart_path.val, cache, env.charts)
                 hashed == [none EXCEPT !.cache = hash.cache,
                                        !.calls = <<[path |-> chart_path.val,
                                                     res |-> hash.res,
                                                     opened |-> hash.opened]>>]
             IN  IF hash.res.kind # "Ok" THEN [hashed EXCEPT !.res = hash.res]
                 ELSE IF ~env.sql_ok
                     THEN [hashed EXCEPT !.res = Err([text |-> "sqlite failure",
                                                      path |-> score_path]),
                                         !.rows = <<ScoreRow(score, env.mtime.secs, hash.res.val)>>]
                 ELSE [hashed EXCEPT !.res = Ok("inserted"),
                                     !.rows = <<ScoreRow(score, env.mtime.secs, hash.res.val)>>]

\* version_19(score, db, score_path).  env is what the call meets outside
\* the program: charts (the chart files), overflow_checks (the build
\* profile), mtime (whether the score file's modification time can be read,
\* and its seconds since the epoch, negative before it) and sql_ok
\* (whether the INSERT succeeds).  The result, the rows added to Scores,
\* the hash cache afterwards and the hash_file calls made.
version_19(score, score_path, cache, env) ==
    LET existing == {p \in DOMAIN env.charts : env.charts[p] # "absent"}
        chart_path == get_score_chart_path(score_path, existing, env.overflow_checks)
        none == [res |-> chart_path, rows |-> <<>>, cache |-> cache, calls |-> <<>>]
    IN  IF chart_path.kind # "Ok" THEN none
        ELSE IF ~env.mtime.ok
            THEN [none EXCEPT !.res = Err([text |-> "io error", path |-> score_path])]
        ELSE IF env.mtime.secs < 0
            THEN [none EXCEPT !.res = Panic("unwrap on SystemTimeError")]
        ELSE LET hash == hash_file(chart_path.val, cache, env.charts)
                 hashed == [none EXCEPT !.cache = hash.cache,
                                        !.calls = <<[path |-> chart_path.val,
                                                     res |-> hash.res,
                                                     opened |-> hash.opened]>>]
             IN  IF hash.res.kind # "Ok" THEN [hashed EXCEPT !.res = hash.res]
                 ELSE IF ~env.sql_ok
                     THEN [hashed EXCEPT !.res = Err([text |-> "sqlite failure",
                                                      path |-> score_path])]
                 ELSE [hashed EXCEPT !.res = Ok("inserted"),
                                     !.rows = <<ScoreRow(score, env.mtime.secs, hash.res.val)>>]

insert_func_from_18(db_version) ==
    IF db_version >= 18 THEN "version_19" ELSE "None"

\* the dispatch on the schema version: the insert function, "None" without
insert_func(db_version) ==
    IF db_version = 19 THEN "version_19" ELSE "None"

(***************************************************************************)
(* The file system and the database the importer runs against.             *)
(***************************************************************************)
Dir(name) == Comp(name, "")

\* the root directory given to the importer
KsmRoot == <<RootDir, Dir("r")>>

ScoreDir == KsmRoot \o <<Dir("score")>>

\* the places a score-tree entry of the model can sit at
PathShallow == ScoreDir \o <<Comp("a", "ksc")>>
PathDeepA == ScoreDir \o <<Dir("p"), Dir("f"), Dir("s"), Comp("a", "ksc")>>
PathDeepB == ScoreDir \o <<Dir("p"), Dir("f"), Dir("s"), Comp("b", "KSC")>>
PathNotes == ScoreDir \o <<Dir("p"), Dir("f"), Dir("s"), Comp("notes", "txt")>>

\* the places of the score files; PathNotes holds a file that is none
TreePaths == {PathShallow, PathDeepA, PathDeepB}

\* the chart files of the model
ChartDeepA == KsmRoot \o <<Dir("songs"), Dir("f"), Dir("s"), Comp("a", "ksh")>>
ChartDeepB == KsmRoot \o <<Dir("songs"), Dir("f"), Dir("s"), Comp("b", "ksh")>>
ChartRootA == KsmRoot \o <<Dir("songs"), Comp("a", "ksh")>>

ChartPaths == {ChartDeepA, ChartDeepB, ChartRootA}

\* a byte that is not valid UTF-8: BufRead::lines yields Err for its line
InvalidByte == "xFF"
LineInvalid == <<"h", InvalidByte>>

ValidUtf8(line) == \A i \in 1..Len(line) : line[i] # InvalidByte

\* a file of the score tree: whether File::open succeeds, and its lines
File(lines) == [open_ok |-> TRUE, read_ok |-> TRUE, lines |-> lines]
Unopenable == [open_ok |-> FALSE, read_ok |-> FALSE, lines |-> <<>>]

\* a directory whose name ends in .ksc, where File::open opens directories
\* (the walk lists directories as well as files): every read of it fails,
\* so BufRead::lines yields Err on every call and never ends
Directory == [open_ok |-> TRUE, read_ok |-> FALSE, lines |-> <<>>]

FileValues ==
    { Unopenable,
      File(<<>>),
      File(<<LineA>>),
      File(<<LineEasy, LineNormal>>),
      File(<<LineA, LineShort, LineNormal>>),
      File(<<LineBadScore, LineBadBadge, LineBadGauge, LineNoEq, LineA>>),
      File(<<LineShortBad, LineInvalid, LineA>>),
      Directory }

\* modification times of the score files: after the epoch, before it,
\* unreadable
MTimeOk == [ok |-> TRUE, secs |-> 1600000000]

MTimes == {MTimeOk, [ok |-> TRUE, secs |-> -1], [ok |-> FALSE, secs |-> 0]}

\* what lies under the root: whether it has a score directory, the files of
\* the score tree (at most MaxFiles score files, and the notes) and the
\* modification time its files carry
NoScoreDir == [exists |-> FALSE, files |-> <<>>, mtime |-> MTimeOk]

Notes == PathNotes :> File(<<LineA>>)

Trees ==
    {NoScoreDir} \cup
    {[exists |-> TRUE, files |-> f @@ Notes, mtime |-> m] :
        f \in {g \in UNION {[ps -> FileValues] :
                        ps \in {q \in SUBSET TreePaths : Cardinality(q) <= MaxFiles}} :
                    \A q \in DOMAIN g : g[q] = Directory => q = PathDeepB},
        m \in MTimes}

\* the database file: whether Connection::open succeeds, whether the version
\* query succeeds, the version it returns, and whether an INSERT into
\* Scores succeeds
Databases ==
    {[opens |-> FALSE, query_ok |-> FALSE, version |-> 0, insert_ok |-> FALSE],
     [opens |-> TRUE, query_ok |-> FALSE, version |-> 0, insert_ok |-> FALSE],
     [opens |-> TRUE, query_ok |-> TRUE, version |-> 18, insert_ok |-> FALSE],
     [opens |-> TRUE, query_ok |-> TRUE, version |-> 19, insert_ok |-> FALSE],
     [opens |-> TRUE, query_ok |-> TRUE, version |-> 19, insert_ok |-> TRUE]}

\* the chart files: the one of PathDeepA in every status
ChartChoices ==
    {c \in [ChartPaths -> ChartStatus] :
        /\ c[ChartDeepA] \in {"absent", "unreadable", "bytes1"}
        /\ c[ChartDeepB] = "bytes2"
        /\ c[ChartRootA] = "bytes1"}

AllCharts == [p \in ChartPaths |-> IF p = ChartDeepB THEN "bytes2" ELSE "bytes1"]

\* whether a run in this environment gets to insert: what it never looks at
\* (the charts, the modification times, the build's overflow checks) is
\* left at one value in the initial states
Inserting(t, d) ==
    /\ d.opens /\ d.query_ok /\ d.version = 19
    /\ t.exists

(***************************************************************************)
(* Score File Locator.                                                     *)
(***************************************************************************)
\* enumerate_ksm_score_files comparing the extension as it is written
enumerate_ksm_score_files_case_sensitive(ksm_path, t) ==
    IF ~t.exists
        THEN Err([text |-> "Path does not exist", path |-> ksm_path \o <<Dir("score")>>])
    ELSE Ok({p \in DOMAIN t.files :
                /\ p[Len(p)].ext # ""
                /\ p[Len(p)].ext = "ksc"})

\* enumerate_ksm_score_files: the entries with extension ksc (compared in
\* lower case), as a set; the order of the Vec is the walk's
enumerate_ksm_score_files(ksm_path, t) ==
    IF ~t.exists
        THEN Err([text |-> "Path does not exist", path |-> ksm_path \o <<Dir("score")>>])
    ELSE Ok({p \in DOMAIN t.files :
                /\ p[Len(p)].ext # ""
                /\ to_ascii_lowercase(p[Len(p)].ext) = "ksc"})

\* the sequences that list the elements of S once each
Orderings(S) ==
    {o \in [1..Cardinality(S) -> S] : \A i, j \in 1..Cardinality(S) : o[i] = o[j] => i = j}

(***************************************************************************)
(* Import Driver.                                                          *)
(***************************************************************************)
\* the threads that may call hash_file, and where one is: outside of it, or
\* inside with the lock taken, or unwound by a panic
Accessors == {1, 2}

NoHolder == 0

Outside == [at |-> "outside", path |-> <<>>]
Inside(path) == [at |-> "inside", path |-> path]
Unwound == [at |-> "panicked", path |-> <<>>]

VARIABLES
    state,            \* State: "Ready", "Importing", "Finished"; "Panicked" once a step
                      \* panicked, "Looping" in a step that never returns
    ksm,              \* State::Ready.ksm
    db_version,       \* State::Importing.db_version
    score_files,      \* State::Importing.score_files
    summary,          \* State::Importing.summary
    connection,       \* whether the driver holds an open connection
    events,           \* the Progress values the stream has yielded
    Scores,           \* the rows of the Scores table
    HASH_CACHE,       \* the process-wide hash cache
    hash_calls,       \* the hash_file calls made: path, result, files opened
    current,          \* the score file the last Importing step popped
    tree,             \* file system: the score tree under the root
    charts,           \* file system: the chart files
    db,               \* the database file
    overflow_checks,  \* build profile: arithmetic overflow panics
    calls,            \* harness: hash_file calls and file edits made
    resolved,         \* harness: the resolver's last input and result
    guard,            \* the accessor that holds the lock of HASH_CACHE, NoHolder without
    accessors         \* each accessor of HASH_CACHE: where it is in hash_file

vars ==
    <<state, ksm, db_version, score_files, summary, connection, events, Scores,
      HASH_CACHE, hash_calls, current, tree, charts, db, overflow_checks, calls,
      resolved, guard, accessors>>

\* an Advanced arm that reports an error
AdvancedAsErrored(progress) == [type |-> "Errored", message |-> <<"Advanced">>]

\* enum Progress
Advanced(progress) == [type |-> "Advanced", progress |-> progress]
Finished(s) == [type |-> "Finished", summary |-> s]
Errored(message) == [type |-> "Errored", message |-> message]

StartedAsAdvanced == Advanced(Rat(FALSE, 0, 1))

Started == [type |-> "Started"]

\* the message of the Errored event of the Ready step, from whether the
\* database opened and the result of the enumeration (one of them failed)
Piece(text) == [text |-> text, path |-> <<>>]

DbOpenError == Piece("unable to open database file")

ready_error_db_only(db_conn_ok, score_files_res) ==
    IF db_conn_ok THEN <<score_files_res.err>>
    ELSE <<DbOpenError>>

ready_error(db_conn_ok, score_files_res) ==
    IF db_conn_ok THEN <<score_files_res.err>>
    ELSE IF score_files_res.kind = "Ok" THEN <<DbOpenError>>
    ELSE <<Piece("DB Error: "), DbOpenError,
           Piece(", KSM Path error: "), score_files_res.err>>

\* a - b on rationals that are not negative, a >= b
RatSub(a, b) == Rat(FALSE, a.n * b.d - b.n * a.d, a.d * b.d)

\* the fraction of an Advanced event: 1.0 - (score_files.len() / scores_found)
progress_inverted(len, scores_found) == Rat(FALSE, len, scores_found)

progress(len, scores_found) ==
    RatSub(Rat(FALSE, 1, 1), Rat(FALSE, len, scores_found))

NoSummary == [scores_found |-> 0, scores_imported |-> 0, fail_messages |-> <<>>]

NoFile == [path |-> <<>>, file |-> Unopenable]

EmptyCache == <<>>

NotResolved == [path |-> <<>>, exists |-> FALSE, res |-> Err("not called")]

\* import_lines with an Inserter that skips a row the table already holds
RECURSIVE import_lines_upsert(_, _, _, _, _)
import_lines_upsert(lines, i, path, env, acc) ==
    IF i > Len(lines) THEN acc
    ELSE IF ~ValidUtf8(lines[i]) THEN import_lines_upsert(lines, i + 1, path, env, acc)
    ELSE LET s == Parsed[lines[i]]
         IN  IF s.kind = "Panic" THEN [acc EXCEPT !.panic = TRUE]
             ELSE IF s.kind = "Err"
                 THEN import_lines_upsert(lines, i + 1, path, env,
                        [acc EXCEPT !.fail_messages =
                            Append(@, [text |-> "Score parse failed in",
                                       path |-> path, err |-> s.err])])
             ELSE LET r == version_19(s.val, path, acc.cache,
                                      [charts |-> env.charts,
                                       overflow_checks |-> env.overflow_checks,
                                       mtime |-> env.mtime,
                                       sql_ok |-> env.sql_ok])
                      held == \E k \in 1..Len(acc.Scores) :
                                 \E j \in 1..Len(r.rows) : acc.Scores[k] = r.rows[j]
                      done == [acc EXCEPT !.cache = r.cache,
                                          !.Scores = IF held THEN @ ELSE @ \o r.rows,
                                          !.hash_calls = @ \o r.calls]
                  IN  IF r.res.kind = "Panic" THEN [done EXCEPT !.panic = TRUE]
                      ELSE IF r.res.kind = "Err"
                          THEN import_lines_upsert(lines, i + 1, path, env,
                                 [done EXCEPT !.fail_messages =
                                     Append(@, [text |-> "Score insert failed",
                                                path |-> path, err |-> r.res.err])])
                      ELSE import_lines_upsert(lines, i + 1, path, env,
                             [done EXCEPT !.scores_imported = @ + 1])

\* the lines of one opened file, from line i on, through the parse filter,
\* the insert filter and the counting for_each.  acc carries
\* scores_imported, fail_messages, the Scores table, the cache, the
\* hash_file calls and whether a line panicked (which ends the step there).
RECURSIVE import_lines(_, _, _, _, _)
import_lines(lines, i, path, env, acc) ==
    IF i > Len(lines) THEN acc
    ELSE IF ~ValidUtf8(lines[i]) THEN import_lines(lines, i + 1, path, env, acc)
    ELSE LET s == Parsed[lines[i]]
         IN  IF s.kind = "Panic" THEN [acc EXCEPT !.panic = TRUE]
             ELSE IF s.kind = "Err"
                 THEN import_lines(lines, i + 1, path, env,
                        [acc EXCEPT !.fail_messages =
                            Append(@, [text |-> "Score parse failed in",
                                       path |-> path, err |-> s.err])])
             ELSE LET r == version_19(s.val, path, acc.cache,
                                      [charts |-> env.charts,
                                       overflow_checks |-> env.overflow_checks,
                                       mtime |-> env.mtime,
                                       sql_ok |-> env.sql_ok])
                      done == [acc EXCEPT !.cache = r.cache,
                                          !.Scores = @ \o r.rows,
                                          !.hash_calls = @ \o r.calls]
                  IN  IF r.res.kind = "Panic" THEN [done EXCEPT !.panic = TRUE]
                      ELSE IF r.res.kind = "Err"
                          THEN import_lines(lines, i + 1, path, env,
                                 [done EXCEPT !.fail_messages =
                                     Append(@, [text |-> "Score insert failed",
                                                path |-> path, err |-> r.res.err])])
                      ELSE import_lines(lines, i + 1, path, env,
                             [done EXCEPT !.scores_imported = @ + 1])

\* an arm for File::open failing that records nothing
open_failure_silent(current_file_path, acc) == acc

\* File::open failed: one message, nothing else
open_failure(current_file_path, acc) ==
    [acc EXCEPT !.fail_messages =
        Append(@, [text |-> "Failed to open", path |-> current_file_path,
                   err |-> "io error"])]

Init ==
    /\ state = "Ready"
    /\ ksm = KsmRoot
    /\ db_version = 0
    /\ score_files = <<>>
    /\ summary = NoSummary
    /\ connection = FALSE
    /\ events = <<>>
    /\ Scores = <<>>
    /\ HASH_CACHE = EmptyCache
    /\ hash_calls = <<>>
    /\ current = NoFile
    /\ tree \in Trees
    /\ db \in Databases
    /\ charts \in (IF Inserting(tree, db) THEN ChartChoices ELSE {AllCharts})
    /\ overflow_checks \in (IF Inserting(tree, db) THEN BOOLEAN ELSE {FALSE})
    /\ ~Inserting(tree, db) => tree.mtime = MTimeOk
    /\ calls = 0
    /\ resolved = NotResolved
    /\ guard = NoHolder
    /\ accessors = [a \in Accessors |-> Outside]

\* run_importer on State::Ready
Ready ==
    /\ state = "Ready"
    /\ LET score_files_res == enumerate_ksm_score_files(ksm, tree)
       IN  IF db.opens /\ score_files_res.kind = "Ok"
               THEN \E order \in Orderings(score_files_res.val) :
                       /\ state' = "Importing"
                       /\ db_version' = (IF db.query_ok THEN db.version ELSE 0)
                       /\ connection' = TRUE
                       /\ summary' = [NoSummary EXCEPT !.scores_found = Len(order)]
                       /\ score_files' = order
                       /\ events' = Append(events, Started)
           ELSE /\ state' = "Finished"
                /\ events' = Append(events,
                                    Errored(ready_error(db.opens, score_files_res)))
                /\ UNCHANGED <<db_version, connection, summary, score_files>>
    /\ UNCHANGED <<guard, accessors>>
    /\ UNCHANGED <<ksm, Scores, HASH_CACHE, hash_calls, current, tree, charts, db,
                   overflow_checks, calls, resolved>>

\* run_importer on State::Importing
Importing ==
    /\ state = "Importing"
    /\ IF score_files = <<>>
           THEN /\ events' = Append(events, Finished(summary))
                /\ state' = "Finished"
                /\ connection' = FALSE
                /\ UNCHANGED <<score_files, summary, Scores, HASH_CACHE, hash_calls, current>>
       ELSE IF insert_func(db_version) = "None"
           THEN /\ events' = Append(events,
                                    Errored(<<"Unsupported DB version: ", db_version>>))
                /\ state' = "Finished"
                /\ connection' = FALSE
                /\ UNCHANGED <<score_files, summary, Scores, HASH_CACHE, hash_calls, current>>
       ELSE LET current_file_path == score_files[Len(score_files)]
                rest == SubSeq(score_files, 1, Len(score_files) - 1)
                file == tree.files[current_file_path]
                acc == [scores_imported |-> summary.scores_imported,
                        fail_messages |-> summary.fail_messages,
                        Scores |-> Scores, cache |-> HASH_CACHE,
                        hash_calls |-> hash_calls, panic |-> FALSE]
            IN    \E out \in {IF file.open_ok
                                 THEN import_lines(file.lines, 1, current_file_path,
                                        [charts |-> charts,
                                         overflow_checks |-> overflow_checks,
                                         mtime |-> tree.mtime,
                                         sql_ok |-> db.insert_ok], acc)
                             ELSE open_failure(current_file_path, acc)} :
                      /\ current' = [path |-> current_file_path, file |-> file]
                      /\ Scores' = out.Scores
                      /\ HASH_CACHE' = out.cache
                      /\ hash_calls' = out.hash_calls
                      /\ IF out.panic
                             THEN /\ state' = "Panicked"
                                  /\ connection' = FALSE
                                  /\ UNCHANGED <<score_files, summary, events>>
                         ELSE IF file.open_ok /\ ~file.read_ok
                             THEN /\ state' = "Looping"
                                  /\ UNCHANGED <<score_files, summary, events, connection>>
                         ELSE /\ state' = "Importing"
                              /\ score_files' = rest
                              /\ summary' = [summary EXCEPT
                                    !.scores_imported = out.scores_imported,
                                    !.fail_messages = out.fail_messages]
                              /\ events' = Append(events, Advanced(
                                    progress(Len(rest), summary.scores_found)))
                              /\ UNCHANGED connection
    /\ UNCHANGED <<guard, accessors>>
    /\ UNCHANGED <<ksm, db_version, tree, charts, db, overflow_checks, calls, resolved>>

\* a Finished arm that starts over
PolledRestarts ==
    /\ state = "Finished"
    /\ state' = "Ready"
    /\ UNCHANGED <<guard, accessors>>
    /\ UNCHANGED <<ksm, db_version, score_files, summary, connection, events, Scores,
                   HASH_CACHE, hash_calls, current, tree, charts, db, overflow_checks,
                   calls, resolved>>

\* run_importer on State::Finished: None, the stream has ended
Polled ==
    /\ state = "Finished"
    /\ UNCHANGED vars

Next == Ready \/ Importing \/ Polled

Spec == Init /\ [][Next]_vars

(***************************************************************************)
(* The Content Hasher on its own: hash_file called directly, as a test in  *)
(* its module would, against chart files that are written, removed or made *)
(* unreadable between the calls, from an empty or a pre-seeded cache.      *)
(***************************************************************************)
HashPaths == {ChartDeepA, ChartDeepB}

HasherInit ==
    /\ state = "Hashing"
    /\ ksm = KsmRoot
    /\ db_version = 0
    /\ score_files = <<>>
    /\ summary = NoSummary
    /\ connection = FALSE
    /\ events = <<>>
    /\ Scores = <<>>
    /\ HASH_CACHE \in {EmptyCache} \cup {p :> Sha1(b) : p \in HashPaths, b \in ChartBytes}
    /\ hash_calls = <<>>
    /\ current = NoFile
    /\ tree = NoScoreDir
    /\ charts \in {c \in [ChartPaths -> ChartStatus] : c[ChartRootA] = "bytes1"}
    /\ db \in {d \in Databases : ~d.opens}
    /\ overflow_checks = FALSE
    /\ calls = 0
    /\ resolved = NotResolved
    /\ guard = NoHolder
    /\ accessors = [a \in Accessors |-> Outside]

\* one call of hash_file
HashFile ==
    /\ state = "Hashing"
    /\ calls < MaxCalls
    /\ \E path \in HashPaths :
         \E h \in {hash_file(path, HASH_CACHE, charts)} :
            /\ HASH_CACHE' = h.cache
            /\ hash_calls' = Append(hash_calls,
                                    [path |-> path, res |-> h.res, opened |-> h.opened])
    /\ calls' = calls + 1
    /\ UNCHANGED <<guard, accessors>>
    /\ UNCHANGED <<state, ksm, db_version, score_files, summary, connection, events,
                   Scores, current, tree, charts, db, overflow_checks, resolved>>

\* the environment writes, removes or locks a chart file
ChartEdited ==
    /\ state = "Hashing"
    /\ calls < MaxCalls
    /\ \E path \in HashPaths, st \in ChartStatus :
         /\ st # charts[path]
         /\ charts' = [charts EXCEPT ![path] = st]
    /\ calls' = calls + 1
    /\ UNCHANGED <<guard, accessors>>
    /\ UNCHANGED <<state, ksm, db_version, score_files, summary, connection, events,
                   Scores, HASH_CACHE, hash_calls, current, tree, db, overflow_checks,
                   resolved>>

HasherNext == HashFile \/ ChartEdited

HasherSpec == HasherInit /\ [][HasherNext]_vars

(***************************************************************************)
(* The Chart Path Resolver on its own: get_score_chart_path on paths of    *)
(* one to MaxDepth components, absolute and relative, whose derived path   *)
(* exists or not, in both build profiles.                                  *)
(***************************************************************************)
FirstComps == {RootDir, Dir("r")}
OtherComps == {Dir("score"), Dir("d"), Comp("a", "ksc")}

ResolverPaths ==
    UNION {{<<first>> \o rest : first \in FirstComps, rest \in [1..(n - 1) -> OtherComps]} :
              n \in 1..MaxDepth}

ResolverInit ==
    /\ state = "Resolving"
    /\ ksm = KsmRoot
    /\ db_version = 0
    /\ score_files \in {<<p>> : p \in ResolverPaths}
    /\ summary = NoSummary
    /\ connection = FALSE
    /\ events = <<>>
    /\ Scores = <<>>
    /\ HASH_CACHE = EmptyCache
    /\ hash_calls = <<>>
    /\ current = NoFile
    /\ tree = NoScoreDir
    /\ charts = AllCharts
    /\ db \in {d \in Databases : ~d.opens}
    /\ overflow_checks \in BOOLEAN
    /\ calls = 0
    /\ resolved = NotResolved
    /\ guard = NoHolder
    /\ accessors = [a \in Accessors |-> Outside]

\* one call of get_score_chart_path, on the path waiting in score_files
Resolve ==
    /\ state = "Resolving"
    /\ score_files # <<>>
    /\ \E exists \in BOOLEAN :
         LET score_path == score_files[1]
             derived == chart_components(with_extension(score_path, "ksh"),
                                         Len(score_path), 0)
         IN  resolved' =
                [path |-> score_path, exists |-> exists,
                 res |-> get_score_chart_path(score_path,
                            IF exists THEN {derived} ELSE {}, overflow_checks)]
    /\ score_files' = <<>>
    /\ UNCHANGED <<guard, accessors>>
    /\ UNCHANGED <<state, ksm, db_version, summary, connection, events, Scores,
                   HASH_CACHE, hash_calls, current, tree, charts, db,
                   overflow_checks, calls>>

ResolverNext == Resolve

ResolverSpec == ResolverInit /\ [][ResolverNext]_vars

(***************************************************************************)
(* The importer run again: once a run has finished, the host calls import  *)
(* again with the same root and the same database file, in the same        *)
(* process (the hash cache is kept) or in a new one (it starts empty).     *)
(* The score tree, the chart files and the database file are as they were. *)
(***************************************************************************)
NewRun ==
    /\ state = "Finished"
    /\ calls + 1 < MaxRuns
    /\ state' = "Ready"
    /\ db_version' = 0
    /\ score_files' = <<>>
    /\ summary' = NoSummary
    /\ connection' = FALSE
    /\ events' = <<>>
    /\ current' = NoFile
    /\ HASH_CACHE' \in {HASH_CACHE, EmptyCache}
    /\ calls' = calls + 1
    /\ UNCHANGED <<guard, accessors>>
    /\ UNCHANGED <<ksm, Scores, hash_calls, tree, charts, db, overflow_checks, resolved>>

RerunNext == Ready \/ Importing \/ Polled \/ NewRun

RerunSpec == Init /\ [][RerunNext]_vars

(***************************************************************************)
(* The Content Hasher called from two threads.  hash_file takes the lock   *)
(* of HASH_CACHE with try_lock().unwrap() on entry and holds the guard     *)
(* until it returns.                                                       *)
(***************************************************************************)
ConcurrentInit ==
    /\ state = "Concurrent"
    /\ ksm = KsmRoot
    /\ db_version = 0
    /\ score_files = <<>>
    /\ summary = NoSummary
    /\ connection = FALSE
    /\ events = <<>>
    /\ Scores = <<>>
    /\ HASH_CACHE \in {EmptyCache} \cup {p :> Sha1(b) : p \in HashPaths, b \in ChartBytes}
    /\ hash_calls = <<>>
    /\ current = NoFile
    /\ tree = NoScoreDir
    /\ charts \in {c \in [ChartPaths -> ChartStatus] : c[ChartRootA] = "bytes1"}
    /\ db \in {d \in Databases : ~d.opens}
    /\ overflow_checks = FALSE
    /\ calls = 0
    /\ resolved = NotResolved
    /\ guard = NoHolder
    /\ accessors = [a \in Accessors |-> Outside]

\* accessor a enters hash_file(path): HASH_CACHE.try_lock().unwrap().
\* try_lock gives None while another accessor holds the guard, and unwrap
\* panics on it
TryLock(a) ==
    /\ state = "Concurrent"
    /\ accessors[a] = Outside
    /\ calls < MaxCalls
    /\ \E path \in HashPaths :
         IF guard = NoHolder
             THEN /\ guard' = a
                  /\ accessors' = [accessors EXCEPT ![a] = Inside(path)]
         ELSE /\ accessors' = [accessors EXCEPT ![a] = Unwound]
              /\ UNCHANGED guard
    /\ calls' = calls + 1
    /\ UNCHANGED <<state, ksm, db_version, score_files, summary, connection, events,
                   Scores, HASH_CACHE, hash_calls, current, tree, charts, db,
                   overflow_checks, resolved>>

\* accessor a, holding the guard, looks the key up, reads and hashes the
\* file on a miss, and returns; the guard is dropped on return
Return(a) ==
    /\ state = "Concurrent"
    /\ accessors[a].at = "inside"
    /\ \E h \in {hash_file(accessors[a].path, HASH_CACHE, charts)} :
          /\ HASH_CACHE' = h.cache
          /\ hash_calls' = Append(hash_calls,
                                  [path |-> accessors[a].path, res |-> h.res,
                                   opened |-> h.opened])
    /\ guard' = NoHolder
    /\ accessors' = [accessors EXCEPT ![a] = Outside]
    /\ UNCHANGED <<state, ksm, db_version, score_files, summary, connection, events,
                   Scores, current, tree, charts, db, overflow_checks, calls, resolved>>

ConcurrentNext == \E a \in Accessors : TryLock(a) \/ Return(a)

ConcurrentSpec == ConcurrentInit /\ [][ConcurrentNext]_vars

(***************************************************************************)
(* The driver under a host that keeps polling the stream: a step that can  *)
(* be taken is taken.                                                      *)
(***************************************************************************)
\* the environments of Init with every chart file present and the
\* modification times readable: whether a run ends is decided by the score
\* files, the database and the build
FairInit ==
    /\ Init
    /\ charts = AllCharts
    /\ tree.mtime = MTimeOk

FairSpec == FairInit /\ [][Next]_vars /\ WF_vars(Next)

(***************************************************************************)
(* Properties.                                                             *)
(***************************************************************************)
Last(seq) == seq[Len(seq)]
Front(seq) == SubSeq(seq, 1, Len(seq) - 1)

IsTerminal(e) == e.type \in {"Finished", "Errored"}

\* Started, then only Advanced
StartedThenAdvanced(ev) ==
    /\ Len(ev) >= 1
    /\ ev[1].type = "Started"
    /\ \A i \in 2..Len(ev) : ev[i].type = "Advanced"

\* Started, Advanced any number of times, one terminal event
CompleteRun(ev) ==
    /\ Len(ev) >= 2
    /\ IsTerminal(Last(ev))
    /\ StartedThenAdvanced(Front(ev))

\* the Ready step met a failure: the database did not open or the root has
\* no score directory
ReadyFailed == ~db.opens \/ ~tree.exists

\* C1 as stated: in every run the events are Started, then zero or more
\* Advanced, then exactly one Finished or Errored (so far as the run has
\* come; complete once the driver is in Finished).
C1_EventsStartWithStarted ==
    IF state = "Finished" THEN CompleteRun(events)
    ELSE events = <<>> \/ StartedThenAdvanced(events)

\* C1, amended: a run whose Ready step fails emits the single event Errored
\* and nothing else; every other run emits Started, then zero or more
\* Advanced, then (when the driver reaches Finished) exactly one Finished
\* or Errored, after which nothing follows.
C1_EventSequence ==
    IF state = "Ready" THEN events = <<>>
    ELSE IF ReadyFailed
        THEN state = "Finished" /\ Len(events) = 1 /\ events[1].type = "Errored"
    ELSE IF state = "Finished" THEN CompleteRun(events)
    ELSE StartedThenAdvanced(events)

\* a run over two files that ended with the summary
C1_Witness ==
    /\ state = "Finished"
    /\ Len(events) = 4
    /\ Last(events).type = "Finished"

\* C2 as stated: an unsupported schema version, whatever the number of
\* enumerated files, ends the run with Errored before any file is opened,
\* and no Finished event is emitted.
UnsupportedRun == state \in {"Importing", "Finished", "Panicked"} /\ ~ReadyFailed /\ db_version # 19

OnlyErrored ==
    /\ \A i \in 1..Len(events) : events[i].type # "Finished"
    /\ state = "Finished" => Last(events).type = "Errored"
    /\ current = NoFile
    /\ Scores = <<>>

InMessage(x, message) == \E i \in 1..Len(message) : message[i] = x

SupportedPrefix(line) ==
    StartsWith(line, HardPrefix) \/ StartsWith(line, NormalPrefix)

Malformed(line) ==
    LET parts == Split(line, "=")
    IN  \/ Len(parts) < 2
        \/ LET stats == Split(parts[2], ",")
           IN  \/ Len(stats) < 4
               \/ ParseU32(stats[1]).kind = "Err"
               \/ ParseU32(stats[2]).kind = "Err"
               \/ ParseF64(stats[4]).kind = "Err"

C4_MalformedLineIsError ==
    \A i \in 1..Len(current.file.lines) :
        LET line == current.file.lines[i]
        IN  (ValidUtf8(line) /\ SupportedPrefix(line) /\ Malformed(line))
                => Parsed[line].kind = "Err"

\* an Importing step that pops a file and dispatches to an insert function
Popping ==
    /\ state = "Importing"
    /\ score_files # <<>>
    /\ insert_func(db_version) # "None"

PoppedPath == Last(score_files)
PoppedFile == tree.files[PoppedPath]

TextLines(file) == \A i \in 1..Len(file.lines) : ValidUtf8(file.lines[i])

\* C5: for a file that opens, every line yields exactly one outcome (one
\* failure message or one increment of scoresImported), whatever the other
\* lines are, and the step emits Advanced and the run continues.  (Stated
\* of files of text lines, at paths of five or more components and with a
\* modification time after the epoch: what the resolver and the inserter
\* do outside of these is not the parser's.)
C5_EveryLineOneOutcome ==
    [][(Popping /\ PoppedFile.open_ok /\ TextLines(PoppedFile)
          /\ Len(PoppedPath) >= 5 /\ tree.mtime = MTimeOk) =>
          /\ state' = "Importing"
          /\ events' = Append(events, Last(events'))
          /\ Last(events').type = "Advanced"
          /\ (Len(summary'.fail_messages) - Len(summary.fail_messages))
               + (summary'.scores_imported - summary.scores_imported)
             = Len(PoppedFile.lines)]_vars

\* the row of Scenario A: score 1000000, miss 0, gauge 0.985 (in the
\* column's single precision: 16525558 * 2^-24), gauge_type 1
ScenarioARow(r) ==
    /\ r.score = 1000000
    /\ r.miss = 0
    /\ r.gauge = [neg |-> FALSE, m |-> 16525558, e |-> 24]
    /\ r.gauge_type = 1

\* the environment of Scenario A with the score file at `path`: the score
\* tree holds that one score file, whose only line is LineA; every chart
\* file of the model is present (the one under the root's songs tree and
\* the one three directories below it); the database is at version 19 and
\* takes the insert
ScenarioA(path) ==
    /\ tree = [exists |-> TRUE, files |-> (path :> File(<<LineA>>)) @@ Notes,
               mtime |-> MTimeOk]
    /\ charts = AllCharts
    /\ db = [opens |-> TRUE, query_ok |-> TRUE, version |-> 19, insert_ok |-> TRUE]

ScenarioAOutcome ==
    state = "Finished" =>
          /\ Len(Scores) = 1
          /\ ScenarioARow(Scores[1])
          /\ Last(events) = Finished([scores_found |-> 1, scores_imported |-> 1,
                                      fail_messages |-> <<>>])

\* C6 as stated: Scenario A with the score file at score/a.ksc.
C6_ScenarioA_ScoreRoot == ScenarioA(PathShallow) => ScenarioAOutcome

\* C6, amended: Scenario A with the score file four levels below score, at
\* score/p/f/s/a.ksc, and its chart at songs/f/s/a.ksh: exactly one row is
\* inserted, with score 1000000, miss 0, gauge 0.985, gauge_type 1, and the
\* run ends with Finished(summary), scoresImported 1, failMessages empty.
C6_ScenarioA ==
    ScenarioA(PathDeepA) =>
        /\ state # "Panicked"
        /\ ScenarioAOutcome
        /\ state = "Importing" /\ score_files = <<>> =>
              summary = [scores_found |-> 1, scores_imported |-> 1,
                         fail_messages |-> <<>>]

C6_Witness ==
    /\ ScenarioA(PathDeepA)
    /\ state = "Finished"
    /\ Len(Scores) = 1

\* C7: a score file whose derived chart path does not exist, whatever the
\* number of components of its path: every line of it that parses is
\* recorded as one failed insert, no row is inserted, scoresImported stays,
\* and the step emits Advanced and the run continues.  (Files with a line
\* the parser panics on are left to C4.)
DerivedChart(path) == chart_components(with_extension(path, "ksh"), Len(path), 0)

ChartMissing(path) == DerivedChart(path) \notin {p \in DOMAIN charts : charts[p] # "absent"}

NoParserPanic(file) ==
    \A i \in 1..Len(file.lines) :
        ValidUtf8(file.lines[i]) => Parsed[file.lines[i]].kind # "Panic"

Outcomes(file) ==
    Cardinality({i \in 1..Len(file.lines) : ValidUtf8(file.lines[i])})

C7_MissingChartFailsOnlyTheEntry ==
    [][(Popping /\ PoppedFile.open_ok /\ NoParserPanic(PoppedFile)
          /\ ChartMissing(PoppedPath)) =>
          /\ state' = "Importing"
          /\ Last(events').type = "Advanced"
          /\ Scores' = Scores
          /\ summary'.scores_imported = summary.scores_imported
          /\ Len(summary'.fail_messages)
               = Len(summary.fail_messages) + Outcomes(PoppedFile)]_vars

\* C8: for a path of at least five components the resolver derives the
\* path with the leaf's extension replaced by ksh, the fourth component
\* counted from the leaf (the leaf being the first) removed, the fifth
\* replaced by songs, the others unchanged and in order; that path is what
\* it returns when it exists and what it reports missing when it does not.
ExpectedChart(p) ==
    LET n == Len(p)
    IN  [i \in 1..(n - 1) |->
            IF i < n - 4 THEN p[i]
            ELSE IF i = n - 4 THEN Comp("songs", "")
            ELSE IF i < n - 1 THEN p[i + 1]
            ELSE Comp(p[n].stem, "ksh")]

C8_DerivedPath ==
    (resolved # NotResolved /\ Len(resolved.path) >= 5) =>
        IF resolved.exists THEN resolved.res = Ok(ExpectedChart(resolved.path))
        ELSE resolved.res = Err([text |-> "File does not exist",
                                 path |-> ExpectedChart(resolved.path)])

\* a path of exactly five components resolved in a build with overflow checks
C8_Witness ==
    /\ resolved.res.kind = "Ok"
    /\ Len(resolved.path) = 5
    /\ Len(resolved.res.val) = 4
    /\ overflow_checks

\* a <= b on rationals that are not negative
RatLeq(a, b) == a.n * b.d <= b.n * a.d

AdvancedIn01 ==
    \A i \in 1..Len(events) :
        events[i].type = "Advanced" =>
            /\ ~events[i].progress.neg
            /\ events[i].progress.n <= events[i].progress.d

AdvancedNonDecreasing ==
    \A i, j \in 1..Len(events) :
        (i < j /\ events[i].type = "Advanced" /\ events[j].type = "Advanced")
            => RatLeq(events[i].progress, events[j].progress)

\* the Advanced event just emitted carries 1 - remaining / total
AdvancedIsFraction ==
    (state = "Importing" /\ Last(events).type = "Advanced") =>
        Last(events).progress.n * summary.scores_found
            = Last(events).progress.d * (summary.scores_found - Len(score_files))

AdvancedOneBeforeFinished ==
    /\ Len(events) >= 2
    /\ events[Len(events) - 1].type = "Advanced"
    /\ events[Len(events) - 1].progress.n = events[Len(events) - 1].progress.d

\* C9 as stated: for every number N >= 0 of enumerated files, each Advanced
\* carries 1 - remaining / total, the fractions are non-decreasing and in
\* [0, 1], and the event before Finished is Advanced carrying 1.
C9_ProgressAnyCount ==
    /\ AdvancedIn01 /\ AdvancedNonDecreasing /\ AdvancedIsFraction
    /\ (events # <<>> /\ Last(events).type = "Finished") => AdvancedOneBeforeFinished

\* C9, amended: the same for every run over N >= 1 enumerated files; a run
\* over no file emits no Advanced event, Finished follows Started.
C9_Progress ==
    /\ AdvancedIn01 /\ AdvancedNonDecreasing /\ AdvancedIsFraction
    /\ (events # <<>> /\ Last(events).type = "Finished") =>
          IF summary.scores_found >= 1 THEN AdvancedOneBeforeFinished
          ELSE events = <<Started, Finished(NoSummary)>>

\* a run over two files: one half, then one, then Finished
C9_Witness ==
    /\ Len(events) = 4
    /\ Last(events).type = "Finished"
    /\ events[2] = Advanced([neg |-> FALSE, n |-> 1, d |-> 2])
    /\ events[3] = Advanced([neg |-> FALSE, n |-> 1, d |-> 1])

\* C10: all successful lookups of a path return the same digest; an entry
\* of the cache is never changed or removed; a lookup of a cached path
\* returns the stored digest and opens no file, whatever the file is by then.
SameDigest ==
    \A i, j \in 1..Len(hash_calls) :
        (/\ hash_calls[i].path = hash_calls[j].path
         /\ hash_calls[i].res.kind = "Ok"
         /\ hash_calls[j].res.kind = "Ok")
            => hash_calls[i].res.val = hash_calls[j].res.val

CacheKept ==
    \A p \in DOMAIN HASH_CACHE :
        p \in DOMAIN HASH_CACHE' /\ HASH_CACHE'[p] = HASH_CACHE[p]

HitReadsNothing ==
    hash_calls' # hash_calls =>
        LET c == Last(hash_calls')
        IN  c.path \in DOMAIN HASH_CACHE =>
                c.res = Ok(HASH_CACHE[c.path]) /\ c.opened = <<>>

C10_HashCache ==
    /\ []SameDigest
    /\ [][CacheKept]_vars
    /\ [][HitReadsNothing]_vars

\* a lookup answered from a pre-seeded entry, with the file gone and a
\* digest that is not the one of any file content written since
C10_Witness ==
    /\ hash_calls # <<>>
    /\ Last(hash_calls).res.kind = "Ok"
    /\ Last(hash_calls).opened = <<>>
    /\ charts[Last(hash_calls).path] = "absent"
    /\ Len(hash_calls) = 1

\* what the Importing step computes for the popped path from a file of the
\* given lines, in the state it is taken in
StepOut(lines) ==
    import_lines(lines, 1, PoppedPath,
                 [charts |-> charts, overflow_checks |-> overflow_checks,
                  mtime |-> tree.mtime, sql_ok |-> db.insert_ok],
                 [scores_imported |-> summary.scores_imported,
                  fail_messages |-> summary.fail_messages,
                  Scores |-> Scores, cache |-> HASH_CACHE,
                  hash_calls |-> hash_calls, panic |-> FALSE])

RemoveAt(seq, i) == SubSeq(seq, 1, i - 1) \o SubSeq(seq, i + 1, Len(seq))

\* C11: a line that does not begin with a supported settings prefix makes
\* the parser return an error value, and the step leaves the Scores table,
\* scoresImported and the Inserter calls (seen by the hash lookups and the
\* cache) as the same file without that line would: the Inserter is not
\* invoked for it and nothing is written for it.  (A line that is no text
\* never reaches the parser; it writes nothing either.)
C11_UnsupportedLineWritesNothing ==
    [][(Popping /\ PoppedFile.open_ok) =>
          \A i \in 1..Len(PoppedFile.lines) :
              LET line == PoppedFile.lines[i]
              IN  ~SupportedPrefix(line) =>
                    /\ ValidUtf8(line) => Parsed[line].kind = "Err"
                    /\ LET without == StepOut(RemoveAt(PoppedFile.lines, i))
                       IN  /\ Scores' = without.Scores
                           /\ HASH_CACHE' = without.cache
                           /\ hash_calls' = without.hash_calls
                           /\ (state' = "Panicked") = without.panic
                           /\ state' = "Importing" =>
                                 summary'.scores_imported = without.scores_imported]_vars

\* the file of an unsupported line followed by a line that was imported
C11_Witness ==
    /\ current.file = File(<<LineEasy, LineNormal>>)
    /\ Len(Scores) = 1
    /\ summary.scores_imported = 1
    /\ Len(summary.fail_messages) = 1
    /\ summary.fail_messages[1].err = "Unsupported score entry"

\* the record the specification gives for a line that parses: isHardGauge
\* from the first settings field, score from stats[0], badgeTier from
\* stats[1], gaugePercent stats[3] / 100, miss from badgeTier, crit = near = 0
ExpectedRecord(line) ==
    LET parts == Split(line, "=")
        settings == Split(parts[1], ",")
        stats == Split(parts[2], ",")
        badgeTier == ParseU32(stats[2]).val
    IN  [hard |-> (settings[1] = <<"h", "a", "r", "d">>),
         score |-> ParseU32(stats[1]).val,
         badge |-> badgeTier,
         gauge |-> RatDiv(ParseF64(stats[4]).val, 100),
         miss |-> IF badgeTier > 1 THEN 0 ELSE 1,
         crit |-> 0,
         near |-> 0]

\* the lines of a file that reach the Inserter, in order
RECURSIVE ParsedLines(_, _)
ParsedLines(lines, i) ==
    IF i > Len(lines) THEN <<>>
    ELSE IF ValidUtf8(lines[i]) /\ Parsed[lines[i]].kind = "Ok"
        THEN <<lines[i]>> \o ParsedLines(lines, i + 1)
    ELSE ParsedLines(lines, i + 1)

\* C12: every line of the popped file that matches a supported prefix and
\* parses gives the record of ExpectedRecord; and when the step inserts a
\* row for each of them, the k-th new row carries the score, miss, crit,
\* near and gauge of the k-th such record, with gauge_type 1 when the
\* record is of the hard gauge and 0 otherwise.
C12_ParsedRecord ==
    [][(Popping /\ PoppedFile.open_ok) =>
          LET ok == ParsedLines(PoppedFile.lines, 1)
          IN  /\ \A k \in 1..Len(ok) :
                    /\ SupportedPrefix(ok[k])
                    /\ Parsed[ok[k]].val = ExpectedRecord(ok[k])
              /\ (Len(Scores') = Len(Scores) + Len(ok)) =>
                    \A k \in 1..Len(ok) :
                        LET row == Scores'[Len(Scores) + k]
                            rec == ExpectedRecord(ok[k])
                        IN  /\ row.score = rec.score
                            /\ row.miss = rec.miss
                            /\ row.crit = 0 /\ row.near = 0
                            /\ row.gauge = as_f32(rec.gauge)
                            /\ row.gauge_type = (IF rec.hard THEN 1 ELSE 0)]_vars

\* two files imported: a row of the hard gauge with a badge above 1, and a
\* row of the normal gauge with badge 1
C12_Witness ==
    /\ state = "Finished"
    /\ Len(Scores) = 2
    /\ \E i, j \in 1..2 :
          /\ Scores[i].gauge_type = 1 /\ Scores[i].miss = 0
          /\ Scores[j].gauge_type = 0 /\ Scores[j].miss = 1
                /\ Scores[j].score = 9123456

\* how often x occurs in seq
Count(seq, x) == Cardinality({i \in 1..Len(seq) : seq[i] = x})

SameRows(a, b) ==
    /\ Len(a) = Len(b)
    /\ \A i \in 1..Len(a) : Count(a, a[i]) = Count(b, a[i])

\* the rows the c-th of n runs of k rows each has left in seq
Chunk(seq, c, k) == SubSeq(seq, (c - 1) * k + 1, c * k)

\* a run that ended with Finished(summary)
RunFinished == state = "Finished" /\ events # <<>> /\ Last(events).type = "Finished"

\* after the n-th run over the unchanged tree the table holds n times the
\* rows one run imports
RunsRepeat ==
    RunFinished =>
        LET k == summary.scores_imported
            n == calls + 1
        IN  /\ Len(Scores) = n * k
            /\ \A c \in 2..n : SameRows(Chunk(Scores, 1, k), Chunk(Scores, c, k))

\* a step only appends to the table
RowsKept == SubSeq(Scores', 1, Len(Scores)) = Scores

\* C13: the import is not idempotent.  Run again over the same unchanged
\* score tree into the same database, it inserts every score it imported
\* again: after the second run the table holds each such row twice (after
\* the n-th, n times), and no step changes, removes or skips a row that is
\* already in the table.
C13_NotIdempotent ==
    /\ []RunsRepeat
    /\ [][RowsKept]_vars

\* the second run has finished and two scores are in the table twice
C13_Witness ==
    /\ RunFinished
    /\ calls = 1
    /\ summary.scores_imported = 2
    /\ Len(Scores) = 4
    /\ Scores[1] # Scores[2]

\* the number of Advanced events emitted
AdvancedCount == Cardinality({i \in 1..Len(events) : events[i].type = "Advanced"})

IsPrefix(a, b) == Len(a) <= Len(b) /\ SubSeq(b, 1, Len(a)) = a

\* scoresFound is the number of score files under the root (the files of
\* the tree apart from the notes), which is the files waiting in the
\* worklist and the files already taken from it
ScoresFoundIsFileCount ==
    state = "Importing" =>
        /\ summary.scores_found = Cardinality(DOMAIN tree.files \ {PathNotes})
        /\ summary.scores_found = Len(score_files) + AdvancedCount

\* only a Finished event carries a summary; it is the last event, and the
\* summary it carries is the one the driver held
SummaryOnlyInFinished ==
    \A i \in 1..Len(events) :
        IF events[i].type = "Finished"
            THEN i = Len(events) /\ state = "Finished" /\ events[i].summary = summary
        ELSE "summary" \notin DOMAIN events[i]

SummaryStep ==
    state = "Importing" =>
        /\ summary'.scores_found = summary.scores_found
        /\ summary'.scores_imported >= summary.scores_imported
        /\ IsPrefix(summary.fail_messages, summary'.fail_messages)

\* C14: throughout the Importing phase scoresFound keeps the value set at
\* enumeration, the number of enumerated files; scoresImported never
\* decreases; failMessages only grows, at its end; and the summary is
\* carried by the Finished event and by no earlier event.
C14_Summary ==
    /\ []ScoresFoundIsFileCount
    /\ []SummaryOnlyInFinished
    /\ [][SummaryStep]_vars

\* a run over two files, one of them with the extension in capitals, that
\* has imported scores and recorded failures, at its end
C14_Witness ==
    /\ state = "Finished"
    /\ Last(events).type = "Finished"
    /\ Last(events).summary.scores_found = 2
    /\ Last(events).summary.scores_imported >= 1
    /\ Len(Last(events).summary.fail_messages) >= 2
    /\ PathDeepB \in DOMAIN tree.files

\* the files taken from the worklist so far are the enumerated files less
\* those still waiting, each taken once
EachFileOnce ==
    (state \in {"Importing", "Finished"} /\ ~ReadyFailed /\ insert_func(db_version) # "None") =>
        /\ \A i, j \in 1..Len(score_files) : score_files[i] = score_files[j] => i = j
        /\ AdvancedCount = summary.scores_found - Len(score_files)
        /\ RunFinished => AdvancedCount = summary.scores_found

\* an Importing step with a supported version emits exactly one event and
\* takes at most one file, the last of the worklist
OneEventPerStep ==
    (state = "Importing" /\ insert_func(db_version) # "None") =>
        /\ Len(events') = Len(events) + 1
        /\ Front(events') = events
        /\ \/ score_files' = score_files
           \/ score_files # <<>> /\ score_files' = Front(score_files)
        /\ score_files' # score_files => Last(events').type = "Advanced"

\* C15: with a supported schema version and N enumerated files, each
\* Importing step takes at most one file from the worklist and emits
\* exactly one event; every enumerated file is taken and processed once;
\* N Advanced events are emitted, one per file.
C15_OneEventPerFile ==
    /\ []EachFileOnce
    /\ [][OneEventPerStep]_vars

\* a terminal event is the last event, and the driver is then in Finished
TerminalEventIsLast ==
    \A i \in 1..Len(events) :
        IsTerminal(events[i]) => (i = Len(events) /\ state = "Finished")

\* a step taken in Finished changes nothing
FinishedStays == state = "Finished" => UNCHANGED vars

\* C16: Finished is terminal.  A step in Finished emits no event and
\* changes nothing; no event follows a Finished or an Errored event; the
\* driver does not return to Ready or Importing.
C16_FinishedIsTerminal ==
    /\ []TerminalEventIsLast
    /\ [][FinishedStays]_vars

\* the driver in Finished after a run over a file, its last event terminal
C16_Witness ==
    /\ state = "Finished"
    /\ Len(events) >= 3
    /\ IsTerminal(Last(events))

\* C17: when the popped score file cannot be opened, the step appends
\* exactly one failure message (naming the file), leaves scoresImported and
\* the table as they are, calls neither parser nor Inserter, takes the file
\* from the worklist and emits Advanced with the fraction for the
\* shortened worklist; the driver stays in Importing with the other files.
C17_OpenFailure ==
    [][(Popping /\ ~PoppedFile.open_ok) =>
          /\ Len(summary'.fail_messages) = Len(summary.fail_messages) + 1
          /\ Front(summary'.fail_messages) = summary.fail_messages
          /\ Last(summary'.fail_messages).text = "Failed to open"
          /\ Last(summary'.fail_messages).path = PoppedPath
          /\ summary'.scores_imported = summary.scores_imported
          /\ summary'.scores_found = summary.scores_found
          /\ Scores' = Scores
          /\ hash_calls' = hash_calls /\ HASH_CACHE' = HASH_CACHE
          /\ score_files' = Front(score_files)
          /\ state' = "Importing"
          /\ Front(events') = events
          /\ Last(events').type = "Advanced"
          /\ Last(events').progress.n * summary.scores_found
                = Last(events').progress.d * (summary.scores_found - Len(score_files'))]_vars

\* a file that could not be opened was passed over, and the run went on to
\* import from the other file
C17_Witness ==
    /\ state = "Finished"
    /\ summary.scores_found = 2
    /\ summary.scores_imported >= 1
    /\ \E i \in 1..Len(summary.fail_messages) :
          /\ summary.fail_messages[i].text = "Failed to open"
          /\ i < Len(summary.fail_messages)

\* at most one accessor is inside hash_file with the cache, and it is the
\* one that holds the guard
OneAccessorInside ==
    \A a, b \in Accessors :
        (accessors[a].at = "inside" /\ accessors[b].at = "inside") => (a = b /\ guard = a)

\* no call has ended in a panic: every call returns a digest or an IoError
NoAccessorCrashed == \A a \in Accessors : accessors[a].at # "panicked"

\* C18: for every interleaving of two accessors calling the Content
\* Hasher, at most one of them is at the cache at a time, and every call
\* completes with a digest or an IoError; a call made while the other
\* accessor holds the guard does not crash.
C18_ConcurrentAccessIsSafe == OneAccessorInside /\ NoAccessorCrashed

\* every stage of the Inserter succeeds for the lines of the file at path:
\* the derived chart exists, the modification time of the score file can
\* be read, the chart can be hashed (read, or found in the cache), and the
\* INSERT succeeds
InserterSucceeds(path) ==
    /\ ~ChartMissing(path)
    /\ tree.mtime.ok
    /\ \/ DerivedChart(path) \in DOMAIN HASH_CACHE
       \/ charts[DerivedChart(path)] \in ChartBytes
    /\ db.insert_ok

\* scoresImported is the number of rows of the table (empty when the run
\* began)
ImportedIsRowCount ==
    (state \in {"Importing", "Finished"} /\ ~ReadyFailed) =>
        summary.scores_imported = Len(Scores)

\* a step that pops a file adds one row and one increment for each line
\* that reaches the Inserter when every stage of it succeeds, and neither
\* row nor increment when a stage fails
RowPerSuccessfulCall ==
    (Popping /\ state' = "Importing") =>
        LET rows == Len(Scores') - Len(Scores)
            increments == summary'.scores_imported - summary.scores_imported
            reached == IF PoppedFile.open_ok
                           THEN Len(ParsedLines(PoppedFile.lines, 1)) ELSE 0
        IN  /\ rows = increments
            /\ rows = (IF InserterSucceeds(PoppedPath) THEN reached ELSE 0)
            /\ Len(summary'.fail_messages) - Len(summary.fail_messages) >=
                  (IF InserterSucceeds(PoppedPath) THEN 0 ELSE reached)

\* C19: at every state of the Importing phase scoresImported equals the
\* number of rows this run has inserted: an Inserter call that fails at
\* any stage (chart path, modification time, hashing, INSERT) adds no row
\* and no increment, a successful call adds one row and one increment.
C19_ImportedEqualsRows ==
    /\ []ImportedIsRowCount
    /\ [][RowPerSuccessfulCall]_vars

\* one Inserter call has succeeded and another has failed
C19_Witness ==
    /\ state = "Importing"
    /\ summary.scores_imported = 1
    /\ Len(Scores) = 1
    /\ \E i \in 1..Len(summary.fail_messages) :
          summary.fail_messages[i].text = "Score insert failed"

\* no Advanced event comes before an Errored event
NoAdvancedBeforeErrored ==
    \A i, j \in 1..Len(events) :
        (i < j /\ events[j].type = "Errored") => events[i].type # "Advanced"

\* a run that has emitted Errored has opened no score file, inserted no
\* row and hashed nothing
ErroredRunTouchedNothing ==
    (\E j \in 1..Len(events) : events[j].type = "Errored") =>
        /\ current = NoFile
        /\ Scores = <<>>
        /\ hash_calls = <<>>
        /\ summary.scores_imported = 0 /\ summary.fail_messages = <<>>

\* the schema version is read in the Ready step and kept
VersionKept == state = "Importing" => db_version' = db_version

\* C20: an Errored event is never preceded by an Advanced event.  The
\* schema version is read once and does not change during Importing, so
\* the version check fails on the first Importing step or never, and a run
\* that ends with Errored has opened no score file and inserted no row.
C20_ErroredBeforeAnyFile ==
    /\ []NoAdvancedBeforeErrored
    /\ []ErroredRunTouchedNothing
    /\ [][VersionKept]_vars

\* the version query failed, files were found, and the first Importing
\* step ended the run with Errored
C20_Witness ==
    /\ events # <<>>
    /\ Last(events).type = "Errored"
    /\ events[1].type = "Started"
    /\ ~db.query_ok
    /\ score_files # <<>>

\* an Importing step that leaves the driver in Importing has taken one file
\* from the worklist
WorklistDecreases ==
    (state = "Importing" /\ state' = "Importing") =>
        Len(score_files') = Len(score_files) - 1

\* a run over N files has emitted at most N + 2 events, one per step
AtMostNPlusTwoSteps == Len(events) <= summary.scores_found + 2

\* C21: polled again and again, every run reaches Finished; the worklist
\* shrinks by one on every Importing step that does not end the run, so a
\* run over N enumerated files has emitted its terminal event after at
\* most N + 2 steps.
C21_EventuallyFinished ==
    /\ <>(state = "Finished")
    /\ [][WorklistDecreases]_vars
    /\ []AtMostNPlusTwoSteps

====
